---- MODULE Spec2Model ----
(***************************************************************************)
(* Request-dispatch core of intellidoc-ai-service/app.py: API-key          *)
(* rotation (get_model), the proactive RateLimiter (wait_if_needed) and    *)
(* the retry loops of generate_docs, generate_docs_batch and               *)
(* select_important_files.                                                 *)
(*                                                                         *)
(* Time is counted in whole seconds.  The code only ever uses differences  *)
(* of instants, so instants are stored relative to the present: time.time()*)
(* is 0, an instant t seconds ago is -t, and when d seconds pass every     *)
(* stored instant moves d into the past.  Instants older than the window   *)
(* plus its safety margin behave alike and are stored as -Horizon.         *)
(***************************************************************************)
EXTENDS Integers, Sequences, FiniteSets, TLC

\* ------------------------------------------------------------------ bounds
NumCallers == 2
MaxKeys == 2
MaxRequests == 2
MaxFailures == 1
MaxSlack == 1
RetryRequests == 1
LimRequests == 10
LimFailures == 0
LimSlack == 0
GapRequests == 3
GapPauses == 1
GapSeconds == 53
MaxPieces == 4
MaxFencePieces == 5
MaxSelectPieces == 4

\* ------------------------------------------------------- program constants
rpm_limit == 8
min_interval_seconds == 7
WindowSeconds == 60
SafetyMargin == 1
max_retries == 5
base_delay == 8

Callers == 1..NumCallers

VARIABLES
    API_KEYS,            \* the credential pool, fixed after start-up
    current_key_index,   \* _current_key_index
    key_lock,            \* holder of _key_lock, 0 when free
    configured,          \* the api_key last given to genai.configure
    rl_lock,             \* holder of RateLimiter._lock, 0 when free
    timestamps,          \* RateLimiter._timestamps
    pc,                  \* where each caller is
    op,                  \* the operation a caller runs
    attempt,             \* loop variable of the retry loop
    wake,                \* seconds until a sleeping caller may resume
    key,                 \* local `key` of get_model (0: no client)
    idx,                 \* the index value get_model read last
    result,              \* the body an operation returned
    last,                \* how the latest attempt of the invocation ended
    sleeps,              \* backoff durations slept in this invocation
    calls,               \* provider calls issued in this invocation
    admits,              \* limiter admissions of this invocation
    rotations,           \* key rotations of this invocation
    issued,              \* history: credentials issued, in rotation order
    obtained,            \* history: index values read by get_model
    recorded,            \* history: timestamps appended in the last 60 s
    starts,              \* history: provider calls started in the last 60 s
    given,               \* the arguments handed to a reply-processing function
    returned,            \* what that function returned
    observed,            \* whether the run logs the provider-call starts
    requests,            \* requests still to arrive
    failures,            \* failing attempts still to happen
    slack                \* idle times still to pass, in seconds each

vars == <<API_KEYS, current_key_index, key_lock, configured, rl_lock,
          timestamps, pc, op, attempt, wake, key, idx, result, last,
          sleeps, calls, admits, rotations, issued, obtained, recorded,
          starts, given, returned, observed, requests, failures, slack>>

textVars == <<given, returned>>

\* ------------------------------------------------------------ error texts
\* Exception messages are sequences of characters, so that the substring
\* test of the except handlers is computed and not assumed.
Upper == <<"A","B","C","D","E","F","G","H","I","J","K","L","M",
           "N","O","P","Q","R","S","T","U","V","W","X","Y","Z">>
Lower == <<"a","b","c","d","e","f","g","h","i","j","k","l","m",
           "n","o","p","q","r","s","t","u","v","w","x","y","z">>

\* str.lower() on one character
LowerChar(ch) ==
    IF \E i \in 1..26 : Upper[i] = ch
    THEN Lower[CHOOSE i \in 1..26 : Upper[i] = ch]
    ELSE ch

\* str.lower()
lower(s) == [i \in 1..Len(s) |-> LowerChar(s[i])]

\* the `in` operator on strings: sub occurs in s
Contains(sub, s) ==
    \E i \in 1..(Len(s) - Len(sub) + 1) : SubSeq(s, i, i + Len(sub) - 1) = sub

Txt429 == <<"4","2","9">>
TxtResource == <<"r","e","s","o","u","r","c","e">>
TxtQuota == <<"q","u","o","t","a">>
TxtRate == <<"r","a","t","e">>

\* a test that is true of every text, as `"429" or "rate" in error_str` is
AlwaysTruthy(e) == TRUE

\* is_rate_limit of the three except handlers
is_rate_limit(e) ==
    LET error_str == lower(e) IN
        \/ Contains(Txt429, error_str)
        \/ Contains(TxtResource, error_str)
        \/ Contains(TxtQuota, error_str)
        \/ Contains(TxtRate, error_str)

\* messages of the exceptions an attempt can raise
Err429 == <<"4","2","9">>
ErrQuota == <<"Q","u","o","t","a">>
ErrRATE == <<"R","A","T","E">>
ErrResource == <<"R","e","s","o","u","r","c","e">>
Err500 == <<"5","0","0">>
ErrExtraData == <<"E","x","t","r","a">>
\* "Extra data: line 1 column 430 (char 429)": the position is in the text
ErrExtraDataAt429 == <<"E","x","t","r","a"," ","4","2","9">>
ErrNoneType == <<"g","e","n","e","r","a","t","e">>
NoErr == <<>>

\* what generate_content can raise
ProviderErrors == {Err429, ErrQuota, ErrRATE, ErrResource, Err500}
\* what reading or parsing a reply can raise
ReplyErrors == {ErrExtraData, ErrExtraDataAt429}

\* one attempt's outcome: a usable reply, a provider exception, or a reply
\* whose processing raises
Outcomes ==
    {[kind |-> "ok", text |-> NoErr]}
    \cup {[kind |-> "provider_error", text |-> e] : e \in ProviderErrors}
    \cup {[kind |-> "bad_reply", text |-> e] : e \in ReplyErrors}

\* ---------------------------------------------------------- reply texts
\* A reply is a sequence of tokens: single characters, and the words FILE:
\* and END_FILE as one token each, so that "===" is three tokens and
\* "===FILE:" is four.  Searching, splitting and trimming work on tokens as
\* the str methods work on characters.
Whitespace == {" ", "\n"}

\* str.find + 1: the first position at which sub occurs in s, 0 if none
find(sub, s) ==
    LET at == {i \in 1..(Len(s) - Len(sub) + 1) :
                  SubSeq(s, i, i + Len(sub) - 1) = sub}
    IN  IF at = {} THEN 0 ELSE CHOOSE i \in at : \A j \in at : i <= j

\* str.strip()
strip(s) ==
    LET ink == {i \in 1..Len(s) : s[i] \notin Whitespace}
    IN  IF ink = {} THEN <<>>
        ELSE SubSeq(s, CHOOSE i \in ink : \A j \in ink : i <= j,
                       CHOOSE i \in ink : \A j \in ink : i >= j)

\* str.split(sep): left to right, without overlaps
RECURSIVE split(_, _)
split(s, sep) ==
    IF find(sep, s) = 0 THEN <<s>>
    ELSE <<SubSeq(s, 1, find(sep, s) - 1)>>
         \o split(SubSeq(s, find(sep, s) + Len(sep), Len(s)), sep)

\* str.replace(old, ""): every occurrence removed, left to right
RECURSIVE remove(_, _)
remove(s, old) ==
    IF find(old, s) = 0 THEN s
    ELSE SubSeq(s, 1, find(old, s) - 1)
         \o remove(SubSeq(s, find(old, s) + Len(old), Len(s)), old)

FileMarker == <<"=","=","=","FILE:">>
Delimiter == <<"=","=","=">>
EndMarker == <<"=","=","=","END_FILE","=","=","=">>

\* lines 294-309: the entries of the segments from position i on
RECURSIVE SegmentEntries(_, _)
SegmentEntries(parts, i) ==
    IF i > Len(parts) THEN <<>>
    ELSE LET part == strip(parts[i])
             header_end == find(Delimiter, part)
             filepath == strip(SubSeq(part, 1, header_end - 1))
             content == strip(SubSeq(part, header_end + 3, Len(part)))
             cleaned == IF Contains(EndMarker, content)
                        THEN strip(remove(content, EndMarker))
                        ELSE content
         IN  (IF part # <<>> /\ Contains(Delimiter, part)
              THEN <<[path |-> filepath, documentation |-> cleaned]>>
              ELSE <<>>)
             \o SegmentEntries(parts, i + 1)

\* a parser that trims the reply in its fallback
ParseTrimmedFallback(raw_text, files) ==
    LET results == IF Contains(FileMarker, raw_text)
                   THEN SegmentEntries(split(raw_text, FileMarker), 1)
                   ELSE <<>>
    IN  IF results = <<>>
        THEN <<[path |-> files[1].path, documentation |-> strip(raw_text)]>>
        ELSE results

\* a parser that splits the reply on every "==="
ParseSplitsOnDelimiter(raw_text, files) ==
    LET results == IF Contains(FileMarker, raw_text)
                   THEN SegmentEntries(split(raw_text, Delimiter), 1)
                   ELSE <<>>
    IN  IF results = <<>>
        THEN <<[path |-> files[1].path, documentation |-> raw_text]>>
        ELSE results

\* a parser that returns what the delimiters gave, without the fallback
ParseWithoutFallback(raw_text, files) ==
    IF Contains(FileMarker, raw_text)
    THEN SegmentEntries(split(raw_text, FileMarker), 1)
    ELSE <<>>

\* lines 287-320
parse_batch_response(raw_text, files) ==
    LET results == IF Contains(FileMarker, raw_text)
                   THEN SegmentEntries(split(raw_text, FileMarker), 1)
                   ELSE <<>>
    IN  IF results = <<>> /\ Len(files) = 1
        THEN <<[path |-> files[1].path, documentation |-> raw_text]>>
        ELSE IF results = <<>>
        THEN <<[path |-> files[1].path, documentation |-> raw_text]>>
        ELSE results

\* the replies a run processes: up to MaxPieces pieces, one after another
Block(p, d) ==
    FileMarker \o <<" ">> \o p \o Delimiter \o <<"\n">> \o d \o <<"\n">>
    \o EndMarker
BlockA == Block(<<"a">>, <<"x">>)
BlockB == Block(<<"b">>, <<"y">>)
\* "======END_FILE===END_FILE===": an end marker written inside another
NestedEnd == Delimiter \o EndMarker \o <<"END_FILE", "=", "=", "=">>
Pieces == {FileMarker, Delimiter, EndMarker, <<"a">>, <<"x">>, <<" ">>,
           <<"\n">>, BlockA, BlockB, NestedEnd}

RECURSIVE Concats(_, _)
Concats(pieces, n) ==
    IF n = 0 THEN {<<>>}
    ELSE Concats(pieces, n - 1)
         \cup {t \o q : t \in Concats(pieces, n - 1), q \in pieces}

\* the units of a batch request, paths as token sequences
UnitLists == {<<[path |-> <<"p">>, content |-> "src"]>>,
              <<[path |-> <<"p">>, content |-> "src"],
                [path |-> <<"q">>, content |-> "src"]>>}

ParseInputs(n) ==
    {[fn |-> "parse", raw_text |-> t, files |-> fs] :
        t \in Concats(Pieces, n), fs \in UnitLists}

\* str.startswith
startswith(s, prefix) ==
    Len(s) >= Len(prefix) /\ SubSeq(s, 1, Len(prefix)) = prefix

\* sep.join(lines)
RECURSIVE join(_, _)
join(lines, sep) ==
    IF lines = <<>> THEN <<>>
    ELSE IF Len(lines) = 1 THEN lines[1]
    ELSE lines[1] \o sep \o join(Tail(lines), sep)

\* the backtick character, and the fence of three
Backtick == "backtick"
Fence == <<Backtick, Backtick, Backtick>>

\* a cleanup that deletes every fence of the reply
CleanupRemovesFences(generated_text) == strip(remove(generated_text, Fence))

\* lines 138-148 of generate_docs: the text returned as documentation
cleanup(generated_text) ==
    IF startswith(generated_text, Fence)
    THEN LET lines == split(generated_text, <<"\n">>)
             rest == IF lines # <<>> /\ startswith(strip(lines[1]), Fence)
                     THEN Tail(lines) ELSE lines
             kept == IF rest # <<>> /\ strip(rest[Len(rest)]) = Fence
                     THEN SubSeq(rest, 1, Len(rest) - 1) ELSE rest
         IN  strip(join(kept, <<"\n">>))
    ELSE strip(generated_text)

\* replies to a single-file prompt: fences, a language tag, words, an HTML
\* tag, blanks and line ends
FenceLine == Fence \o <<"m", "\n">>
FencePieces == {Fence, FenceLine, <<Backtick>>, <<"h">>, <<"<img>">>, <<" ">>,
                <<"\n">>}
CleanupInputs(n) ==
    {[fn |-> "cleanup", generated_text |-> t] :
        t \in Concats(FencePieces, n)}

\* JSON values, and the documents a reply can hold as one token each; a
\* mapping is the sequence of its values in document order
List(items) == [type |-> "list", items |-> items]
Dict(values) == [type |-> "dict", values |-> values]
Number == [type |-> "int"]
\* "Maximum 8 files" of the selection prompt
MaxSelected == 8
NinePaths == <<"a.py", "b.py", "c.py", "d.py", "e.py", "f.py", "g.py",
               "h.py", "i.py">>
Documents ==
    [d \in {"[a,b]", "[b,a]", "{files:[a,b]}", "{n:3,files:[a]}", "{}", "3",
            "[a,b,c,d,e,f,g,h,i]", "{a:{}}"} |->
        CASE d = "[a,b]" -> List(<<"a.py", "b.py">>)
          [] d = "[b,a]" -> List(<<"b.py", "a.py">>)
          [] d = "{files:[a,b]}" -> Dict(<<List(<<"a.py", "b.py">>)>>)
          [] d = "{n:3,files:[a]}" -> Dict(<<Number, List(<<"a.py">>)>>)
          [] d = "{}" -> Dict(<<>>)
          [] d = "[a,b,c,d,e,f,g,h,i]" -> List(NinePaths)
          [] d = "{a:{}}" -> Dict(<<Dict(<<>>)>>)
          [] OTHER -> Number]

\* json.loads: blanks around the document are skipped; anything that is not
\* one whole document raises JSONDecodeError
json_loads(text) ==
    IF Len(strip(text)) = 1 /\ strip(text)[1] \in DOMAIN Documents
    THEN [raised |-> FALSE, value |-> Documents[strip(text)[1]]]
    ELSE [raised |-> TRUE]

\* len(): defined for sequences and mappings, TypeError for a number
HasLen(v) == v.type \in {"list", "dict"}

JsonFence == Fence \o <<"json">>

\* a reply handling that returns the parsed value as it is
ReadWithoutUnwrap(response_text) ==
    LET stripped == strip(response_text)
        text_response == IF startswith(stripped, JsonFence)
                         THEN remove(remove(stripped, JsonFence), Fence)
                         ELSE stripped
        loaded == json_loads(text_response)
    IN  IF loaded.raised THEN [raised |-> TRUE]
        ELSE IF ~HasLen(loaded.value) THEN [raised |-> TRUE]
        ELSE [raised |-> FALSE, file_list |-> loaded.value]

\* lines 418-427 of select_important_files: the file_list an attempt gets
\* from the reply, or the exception on the way
read_file_list(response_text) ==
    LET stripped == strip(response_text)
        text_response == IF startswith(stripped, JsonFence)
                         THEN remove(remove(stripped, JsonFence), Fence)
                         ELSE stripped
        loaded == json_loads(text_response)
    IN  IF loaded.raised THEN [raised |-> TRUE]
        ELSE IF loaded.value.type = "dict" /\ loaded.value.values = <<>>
        THEN [raised |-> TRUE]          \* list(...)[0]: IndexError
        ELSE LET file_list == IF loaded.value.type = "dict"
                              THEN loaded.value.values[1]
                              ELSE loaded.value
             IN  IF ~HasLen(file_list)
                 THEN [raised |-> TRUE] \* len(file_list): TypeError
                 ELSE [raised |-> FALSE, file_list |-> file_list]

\* replies to the selection prompt
JsonOpen == JsonFence \o <<"\n">>
SelectPieces == {<<d>> : d \in DOMAIN Documents}
                \cup {<<"[a,">>, JsonOpen, Fence, <<" ">>, <<"\n">>}
SelectInputs(n) ==
    {[fn |-> "select", response_text |-> t] :
        t \in Concats(SelectPieces, n)}

NoInput == [fn |-> "none"]
NotReturned == [kind |-> "none"]

Unit(p) == [path |-> p, content |-> "src"]
\* an item of request.files that has no 'path' key (the schema is `list`)
BadUnit == [content |-> "src"]
FileLists == {<<>>, <<Unit("a.py")>>, <<Unit("a.py"), Unit("b.py")>>, <<BadUnit>>}

\* the four indicators of section 4.3, and the texts that carry one
Indicators == {<<"4","2","9">>, <<"r","e","s","o","u","r","c","e">>,
               <<"q","u","o","t","a">>, <<"r","a","t","e">>}
ThrottlingText(e) == \E ind \in Indicators : Contains(ind, lower(e))

\* how an attempt ended: its outcome kind and whether the exception text
\* names throttling
Ended(kind, e) == [kind |-> kind, throttling |-> ThrottlingText(e)]
NoAttempt == [kind |-> "none", throttling |-> FALSE]

Ops == {"docs", "batch", "select"}
NoResult == [shape |-> "none"]

\* build_batch_prompt: the per-file section reads file_info['path'] and
\* file_info['content'] of every item; a missing key raises KeyError
build_batch_prompt(fs, project_context) ==
    IF \A i \in 1..Len(fs) : {"path", "content"} \subseteq DOMAIN fs[i]
    THEN [raised |-> FALSE,
          prompt |-> <<project_context,
                       [i \in 1..Len(fs) |-> <<i, fs[i].path, fs[i].content>>]>>]
    ELSE [raised |-> TRUE, prompt |-> <<>>]

\* ------------------------------------------------------------------ Init
Pools == {[i \in 1..n |-> i] : n \in 0..MaxKeys}

\* n idle times of d seconds each
Idle(n, d) == [i \in 1..n |-> d]

\* the module-level state of app.py after import, with `budget` saying how
\* much traffic, failure and idle time the run holds
Start(budget) ==
    /\ API_KEYS \in Pools
    /\ current_key_index = 0
    /\ key_lock = 0
    /\ configured = IF API_KEYS = <<>> THEN 0 ELSE API_KEYS[1]
    /\ rl_lock = 0
    /\ timestamps = <<>>
    /\ pc = [c \in Callers |-> "idle"]
    /\ op = [c \in Callers |-> "none"]
    /\ attempt = [c \in Callers |-> 0]
    /\ wake = [c \in Callers |-> 0]
    /\ key = [c \in Callers |-> 0]
    /\ idx = [c \in Callers |-> 0]
    /\ result = [c \in Callers |-> NoResult]
    /\ last = [c \in Callers |-> NoAttempt]
    /\ sleeps = [c \in Callers |-> <<>>]
    /\ calls = [c \in Callers |-> 0]
    /\ admits = [c \in Callers |-> 0]
    /\ rotations = [c \in Callers |-> 0]
    /\ issued = <<>>
    /\ obtained = <<>>
    /\ recorded = <<>>
    /\ starts = <<>>
    /\ given \in budget.inputs
    /\ returned = NotReturned
    /\ observed = budget.observed
    /\ requests = budget.requests
    /\ failures = budget.failures
    /\ slack = budget.slack

Init == Start([requests |-> MaxRequests, failures |-> MaxFailures,
               slack |-> Idle(MaxSlack, 1), observed |-> TRUE,
               inputs |-> {NoInput}])

keyVars == <<current_key_index, key_lock, configured, key, idx, issued,
             obtained, rotations>>
limVars == <<rl_lock, timestamps, recorded, admits>>
loopVars == <<attempt, result, last, sleeps, calls, starts, failures>>

\* --------------------------------------------------------------- the clock
\* time.time()
time_time == 0

Horizon == WindowSeconds + SafetyMargin
Sleeping(c) == pc[c] \in {"rl_interval_sleep", "rl_rpm_sleep", "backoff"}
PendingWakes == {wake[c] : c \in {d \in Callers : Sleeping(d) /\ wake[d] > 0}}
Min(S) == CHOOSE x \in S : \A y \in S : x <= y

\* the instant t, seen d seconds later
Earlier(t, d) == IF t - d < 0 - Horizon THEN 0 - Horizon ELSE t - d
InWindow(t) == time_time - t < WindowSeconds

\* d seconds pass
Elapse(d) ==
    /\ timestamps' = [i \in 1..Len(timestamps) |-> Earlier(timestamps[i], d)]
    /\ wake' = [c \in Callers |-> IF wake[c] > d THEN wake[c] - d ELSE 0]
    /\ recorded' = SelectSeq([i \in 1..Len(recorded) |-> Earlier(recorded[i], d)],
                             InWindow)
    /\ starts' = SelectSeq([i \in 1..Len(starts) |-> Earlier(starts[i], d)],
                           InWindow)
    /\ UNCHANGED <<API_KEYS, observed, textVars, pc, op, keyVars, rl_lock, admits, attempt,
                   result, last, sleeps, calls, requests, failures>>

\* Time passes: up to the earliest pending wake-up while callers sleep, or
\* an idle time that no sleep accounts for (a late arrival, a preempted
\* thread, a sleep that lasts longer than asked), taken from slack.
TickSteps ==
    (IF PendingWakes # {} THEN {Min(PendingWakes)} ELSE {})
    \cup (IF slack # <<>> THEN {Head(slack)} ELSE {})

Tick ==
    \E d \in TickSteps :
        /\ Elapse(d)
        /\ slack' = IF PendingWakes # {} /\ d = Min(PendingWakes)
                    THEN slack ELSE Tail(slack)

\* -------------------------------------------------------------- handlers
\* a failure body that is the error shape in every operation
FailureBodyError(o) == [shape |-> "error"]

\* the value an operation returns when it gives up
FailureBody(o) ==
    IF o = "select" THEN [shape |-> "selected_files", empty |-> TRUE]
    ELSE [shape |-> "error"]

\* the value an operation returns from a usable reply
SuccessBody(o) ==
    CASE o = "docs" -> [shape |-> "documentation"]
      [] o = "batch" -> [shape |-> "results", empty |-> FALSE]
      [] OTHER -> [shape |-> "selected_files", empty |-> FALSE]

\* a handler without the guard
GuardOmitted == FALSE

\* `if not API_KEYS`
NoKeys == API_KEYS = <<>>

\* the handler returns `body` at once
ReturnNow(c, o, body) ==
    /\ pc' = [pc EXCEPT ![c] = "done"]
    /\ op' = [op EXCEPT ![c] = o]
    /\ result' = [result EXCEPT ![c] = body]
    /\ UNCHANGED <<attempt, last, sleeps, calls, starts, failures>>

\* the handler enters its retry loop: attempt = 0
EnterLoop(c, o) ==
    /\ pc' = [pc EXCEPT ![c] = "wait"]
    /\ op' = [op EXCEPT ![c] = o]
    /\ attempt' = [attempt EXCEPT ![c] = 0]
    /\ UNCHANGED <<result, last, sleeps, calls, starts, failures>>

\* an idle worker takes the next request
Accept(c) ==
    /\ pc[c] = "idle"
    /\ requests > 0
    /\ requests' = requests - 1
    /\ UNCHANGED <<API_KEYS, observed, textVars, wake, slack, keyVars, limVars>>

generate_docs(c) ==
    /\ Accept(c)
    /\ IF NoKeys THEN ReturnNow(c, "docs", [shape |-> "error"])
       ELSE EnterLoop(c, "docs")

\* a batch handler without the test for an empty request
BatchWithoutEmptyCheck(c, fs) ==
    /\ Accept(c)
    /\ IF NoKeys THEN ReturnNow(c, "batch", [shape |-> "error"])
       ELSE IF build_batch_prompt(fs, "tree").raised
       THEN /\ pc' = [pc EXCEPT ![c] = "raised"]
            /\ op' = [op EXCEPT ![c] = "batch"]
            /\ UNCHANGED loopVars
       ELSE EnterLoop(c, "batch")

generate_docs_batch(c, fs) ==
    /\ Accept(c)
    /\ IF NoKeys THEN ReturnNow(c, "batch", [shape |-> "error"])
       ELSE IF fs = <<>>
       THEN ReturnNow(c, "batch", [shape |-> "results", empty |-> TRUE])
       ELSE IF build_batch_prompt(fs, "tree").raised
       THEN \* KeyError leaves the handler: line 180 is outside the try
            /\ pc' = [pc EXCEPT ![c] = "raised"]
            /\ op' = [op EXCEPT ![c] = "batch"]
            /\ UNCHANGED loopVars
       ELSE EnterLoop(c, "batch")

select_important_files(c) ==
    /\ Accept(c)
    /\ IF NoKeys
       THEN ReturnNow(c, "select", [shape |-> "selected_files", empty |-> TRUE])
       ELSE EnterLoop(c, "select")

\* ------------------------------------------------- RateLimiter.wait_if_needed
\* a with block that does not wait for the lock
NeverBlocks(lock) == TRUE

\* `with lock:` can be entered when nobody holds the lock
CanAcquire(lock) == lock = 0

\* [t for t in self._timestamps if now - t < 60]
Prune(ts, n) == SelectSeq(ts, LAMBDA t : n - t < WindowSeconds)

\* min-interval wait: self._min_interval - elapsed when the newest retained
\* timestamp is closer than the interval, else 0
IntervalWait(ts, n) ==
    IF ts # <<>> /\ n - ts[Len(ts)] < min_interval_seconds
    THEN min_interval_seconds - (n - ts[Len(ts)])
    ELSE 0

\* an RPM check that lets one request too many into the window
RpmWaitOffByOne(ts, n) ==
    IF Len(ts) > rpm_limit
    THEN WindowSeconds - (n - ts[1]) + SafetyMargin
    ELSE 0

\* RPM wait: 60 - (now - oldest_in_window) + 1 when the retained list is
\* full, else 0 (a value <= 0 means no sleep)
RpmWait(ts, n) ==
    IF Len(ts) >= rpm_limit
    THEN WindowSeconds - (n - ts[1]) + SafetyMargin
    ELSE 0

limFrame == UNCHANGED <<API_KEYS, observed, textVars, op, requests, slack, keyVars, loopVars>>

\* an admission that records now and leaves the lock held
AdmitKeepsLock(c, ts, n) ==
    /\ timestamps' = Append(ts, n)
    /\ recorded' = Append(recorded, n)
    /\ admits' = [admits EXCEPT ![c] = @ + 1]
    /\ rl_lock' = c
    /\ pc' = [pc EXCEPT ![c] = "get_model"]
    /\ UNCHANGED wake

\* line 102 and the end of the with block: record now, release the lock
Admit(c, ts, n) ==
    /\ timestamps' = Append(ts, n)
    /\ recorded' = Append(recorded, n)
    /\ admits' = [admits EXCEPT ![c] = @ + 1]
    /\ rl_lock' = 0
    /\ pc' = [pc EXCEPT ![c] = "get_model"]
    /\ UNCHANGED wake

\* an RPM check that gives the lock up for the time of its sleep
RpmCheckReleasesLock(c, ts, n) ==
    IF RpmWait(ts, n) > 0
    THEN /\ timestamps' = ts
         /\ rl_lock' = 0
         /\ pc' = [pc EXCEPT ![c] = "rl_rpm_sleep"]
         /\ wake' = [wake EXCEPT ![c] = RpmWait(ts, n)]
         /\ UNCHANGED <<recorded, admits>>
    ELSE Admit(c, ts, n)

\* lines 93-102: the RPM check on the list ts with now = n; either the RPM
\* sleep starts (the lock stays held) or now is recorded
RpmCheck(c, ts, n) ==
    IF RpmWait(ts, n) > 0
    THEN /\ timestamps' = ts
         /\ rl_lock' = c
         /\ pc' = [pc EXCEPT ![c] = "rl_rpm_sleep"]
         /\ wake' = [wake EXCEPT ![c] = RpmWait(ts, n)]
         /\ UNCHANGED <<recorded, admits>>
    ELSE Admit(c, ts, n)

\* lines 77-102 up to the first sleep: take the lock, sample now, prune,
\* check the interval, then the RPM limit
WaitEnter(c) ==
    /\ pc[c] = "wait"
    /\ CanAcquire(rl_lock)
    /\ LET now == time_time
           ts == Prune(timestamps, now) IN
         IF IntervalWait(ts, now) > 0
         THEN /\ timestamps' = ts
              /\ rl_lock' = c
              /\ pc' = [pc EXCEPT ![c] = "rl_interval_sleep"]
              /\ wake' = [wake EXCEPT ![c] = IntervalWait(ts, now)]
              /\ UNCHANGED <<recorded, admits>>
         ELSE RpmCheck(c, ts, now)
    /\ limFrame

\* lines 90-102: the interval sleep is over, now is sampled again
WaitIntervalWake(c) ==
    /\ RpmCheck(c, timestamps, time_time)
    /\ limFrame

\* lines 99-102: the RPM sleep is over, now is sampled again, prune again
WaitRpmWake(c) ==
    /\ Admit(c, Prune(timestamps, time_time), time_time)
    /\ limFrame

\* ------------------------------------------------------------------ get_model
\* a rotation that starts at the second credential
KeyAtOffByOne(i) == API_KEYS[((i + 1) % Len(API_KEYS)) + 1]

\* API_KEYS[_current_key_index % len(API_KEYS)], Python indices from 0
KeyAt(i) == API_KEYS[(i % Len(API_KEYS)) + 1]

keyFrame == UNCHANGED <<API_KEYS, observed, textVars, op, wake, requests, slack, limVars,
                        loopVars>>

\* lines 41-44: without keys there is no client; else take _key_lock and
\* read the key at _current_key_index % len(API_KEYS)
GetModelRead(c) ==
    /\ pc[c] = "get_model"
    /\ IF Len(API_KEYS) = 0
       THEN /\ key' = [key EXCEPT ![c] = 0]
            /\ pc' = [pc EXCEPT ![c] = "call"]
            /\ UNCHANGED <<current_key_index, key_lock, configured, idx,
                           issued, obtained, rotations>>
       ELSE /\ CanAcquire(key_lock)
            /\ key_lock' = c
            /\ idx' = [idx EXCEPT ![c] = current_key_index]
            /\ key' = [key EXCEPT ![c] = KeyAt(current_key_index)]
            /\ obtained' = Append(obtained, current_key_index)
            /\ issued' = Append(issued, key'[c])
            /\ pc' = [pc EXCEPT ![c] = "gm_incr"]
            /\ UNCHANGED <<current_key_index, configured, rotations>>
    /\ keyFrame

\* a rotation step that advances the index by two
GetModelIncrByTwo(c) ==
    /\ pc[c] = "gm_incr"
    /\ current_key_index' = current_key_index + 2
    /\ rotations' = [rotations EXCEPT ![c] = @ + 1]
    /\ key_lock' = IF key_lock = c THEN 0 ELSE key_lock
    /\ pc' = [pc EXCEPT ![c] = "gm_configure"]
    /\ UNCHANGED <<configured, key, idx, issued, obtained>>
    /\ keyFrame

\* a rotation step that leaves the index where it is
GetModelIncrKeepsIndex(c) ==
    /\ pc[c] = "gm_incr"
    /\ rotations' = [rotations EXCEPT ![c] = @ + 1]
    /\ key_lock' = IF key_lock = c THEN 0 ELSE key_lock
    /\ pc' = [pc EXCEPT ![c] = "gm_configure"]
    /\ UNCHANGED <<current_key_index, configured, key, idx, issued, obtained>>
    /\ keyFrame

\* line 45 and the end of the with block
GetModelIncr(c) ==
    /\ pc[c] = "gm_incr"
    /\ current_key_index' = current_key_index + 1
    /\ rotations' = [rotations EXCEPT ![c] = @ + 1]
    /\ key_lock' = IF key_lock = c THEN 0 ELSE key_lock
    /\ pc' = [pc EXCEPT ![c] = "gm_configure"]
    /\ UNCHANGED <<configured, key, idx, issued, obtained>>
    /\ keyFrame

\* lines 46-47: genai.configure(api_key=key), return the model handle
GetModelConfigure(c) ==
    /\ pc[c] = "gm_configure"
    /\ configured' = key[c]
    /\ pc' = [pc EXCEPT ![c] = "call"]
    /\ UNCHANGED <<current_key_index, key_lock, key, idx, issued, obtained,
                   rotations>>
    /\ keyFrame

\* the api_key a generate_content call is sent with: the handle of line 47
\* is built from the model name alone, the key lives in the process-wide
\* configuration that genai.configure set last
CredentialInEffect == configured

\* ------------------------------------------------------ the attempt's call
\* a delay that grows by base_delay instead of doubling
BackoffLinear(a) == base_delay * (a + 1)

\* base_delay * (2 ** attempt)
Backoff(a) == base_delay * (2 ^ a)

\* a retry test that also holds on the last attempt
ShouldRetryOffByOne(e, a) == is_rate_limit(e) /\ a < max_retries

\* `is_rate_limit and attempt < max_retries - 1`
ShouldRetry(e, a) == is_rate_limit(e) /\ a < max_retries - 1

\* the except handler: sleep and continue, or log and return the failure
Except(c, e) ==
    IF ShouldRetry(e, attempt[c])
    THEN /\ sleeps' = [sleeps EXCEPT ![c] = Append(@, Backoff(attempt[c]))]
         /\ wake' = [wake EXCEPT ![c] = Backoff(attempt[c])]
         /\ pc' = [pc EXCEPT ![c] = "backoff"]
         /\ UNCHANGED result
    ELSE /\ result' = [result EXCEPT ![c] = FailureBody(op[c])]
         /\ pc' = [pc EXCEPT ![c] = "done"]
         /\ UNCHANGED <<sleeps, wake>>

\* current_model.generate_content(...) and the handling of its reply, up to
\* the return or the start of the backoff sleep
ProviderCall(c, out) ==
    /\ pc[c] = "call"
    /\ IF key[c] = 0
       THEN \* current_model is None: AttributeError before any call
            /\ Except(c, ErrNoneType)
            /\ last' = [last EXCEPT ![c] = Ended("no_client", ErrNoneType)]
            /\ UNCHANGED <<calls, starts, failures>>
       ELSE /\ calls' = [calls EXCEPT ![c] = @ + 1]
            /\ starts' = IF observed THEN Append(starts, time_time) ELSE starts
            /\ last' = [last EXCEPT ![c] = Ended(out.kind, out.text)]
            /\ IF out.kind = "ok"
               THEN /\ result' = [result EXCEPT ![c] = SuccessBody(op[c])]
                    /\ pc' = [pc EXCEPT ![c] = "done"]
                    /\ UNCHANGED <<sleeps, wake, failures>>
               ELSE /\ failures > 0
                    /\ failures' = failures - 1
                    /\ Except(c, out.text)
    /\ key' = [key EXCEPT ![c] = 0]
    /\ UNCHANGED <<API_KEYS, observed, textVars, op, attempt, requests, slack, current_key_index,
                   key_lock, configured, idx, issued, obtained, rotations,
                   limVars>>

\* a retry that goes straight to the key rotation
BackoffWakeSkipsLimiter(c) ==
    /\ IF attempt[c] + 1 < max_retries
       THEN /\ attempt' = [attempt EXCEPT ![c] = @ + 1]
            /\ pc' = [pc EXCEPT ![c] = "get_model"]
            /\ UNCHANGED result
       ELSE /\ result' = [result EXCEPT ![c] = NoResult]
            /\ pc' = [pc EXCEPT ![c] = "done"]
            /\ UNCHANGED attempt
    /\ UNCHANGED <<API_KEYS, observed, textVars, op, wake, requests, failures,
                   slack, last, sleeps, calls, starts, keyVars, limVars>>

\* a retry that sleeps again instead of starting the next attempt
BackoffWakeSleepsAgain(c) ==
    /\ wake' = [wake EXCEPT ![c] = Backoff(attempt[c])]
    /\ UNCHANGED <<API_KEYS, observed, textVars, pc, op, attempt, result,
                   requests, failures, slack, last, sleeps, calls, starts,
                   keyVars, limVars>>

\* time.sleep(wait_time) is over; `continue` starts the next attempt.  A
\* loop that runs out of attempts falls off the end of the handler.
BackoffWake(c) ==
    /\ IF attempt[c] + 1 < max_retries
       THEN /\ attempt' = [attempt EXCEPT ![c] = @ + 1]
            /\ pc' = [pc EXCEPT ![c] = "wait"]
            /\ UNCHANGED result
       ELSE /\ result' = [result EXCEPT ![c] = NoResult]
            /\ pc' = [pc EXCEPT ![c] = "done"]
            /\ UNCHANGED attempt
    /\ UNCHANGED <<API_KEYS, observed, textVars, op, wake, requests, failures, slack, last, sleeps,
                   calls, starts, keyVars, limVars>>

\* time.sleep(...) returns to the caller, in whichever sleep it is
Wake(c) ==
    /\ Sleeping(c)
    /\ wake[c] = 0
    /\ CASE pc[c] = "rl_interval_sleep" -> WaitIntervalWake(c)
         [] pc[c] = "rl_rpm_sleep" -> WaitRpmWake(c)
         [] OTHER -> BackoffWake(c)

\* the response (or the escaped exception) has gone to the framework; the
\* worker is free for the next request
Respond(c) ==
    /\ pc[c] \in {"done", "raised"}
    /\ pc' = [pc EXCEPT ![c] = "idle"]
    /\ op' = [op EXCEPT ![c] = "none"]
    /\ attempt' = [attempt EXCEPT ![c] = 0]
    /\ wake' = [wake EXCEPT ![c] = 0]
    /\ key' = [key EXCEPT ![c] = 0]
    /\ idx' = [idx EXCEPT ![c] = 0]
    /\ result' = [result EXCEPT ![c] = NoResult]
    /\ last' = [last EXCEPT ![c] = NoAttempt]
    /\ sleeps' = [sleeps EXCEPT ![c] = <<>>]
    /\ calls' = [calls EXCEPT ![c] = 0]
    /\ admits' = [admits EXCEPT ![c] = 0]
    /\ rotations' = [rotations EXCEPT ![c] = 0]
    /\ UNCHANGED <<API_KEYS, observed, textVars, current_key_index, key_lock, configured, rl_lock,
                   timestamps, issued, obtained, recorded, starts, requests,
                   failures, slack>>

Next ==
    \/ Tick
    \/ \E c \in Callers : generate_docs(c)
    \/ \E c \in Callers : \E fs \in FileLists : generate_docs_batch(c, fs)
    \/ \E c \in Callers : select_important_files(c)
    \/ \E c \in Callers : WaitEnter(c)
    \/ \E c \in Callers : GetModelRead(c)
    \/ \E c \in Callers : GetModelIncr(c)
    \/ \E c \in Callers : GetModelConfigure(c)
    \/ \E c \in Callers : \E out \in Outcomes : ProviderCall(c, out)
    \/ \E c \in Callers : Wake(c)
    \/ \E c \in Callers : Respond(c)

Spec == Init /\ [][Next]_vars

\* the same program under steady traffic: more requests, fewer failures
InitLim == Start([requests |-> LimRequests, failures |-> LimFailures,
                  slack |-> Idle(LimSlack, 1), observed |-> FALSE,
                  inputs |-> {NoInput}])
LimSpec == InitLim /\ [][Next]_vars

\* the same program serving few requests whose attempts keep failing
InitRetry == Start([requests |-> RetryRequests, failures |-> max_retries,
                    slack |-> Idle(MaxSlack, 1), observed |-> TRUE,
                    inputs |-> {NoInput}])
RetrySpec == InitRetry /\ [][Next]_vars

\* the same program under sparse traffic: few requests, long idle times
InitGap == Start([requests |-> GapRequests, failures |-> 0,
                  slack |-> Idle(GapPauses, GapSeconds),
                  observed |-> FALSE,
                  inputs |-> {NoInput}])
GapSpec == InitGap /\ [][Next]_vars

\* steady traffic with the scheduling the limiter relies on: time advances
\* (time.sleep returns), a thread whose sleep is over runs again, and a
\* thread waiting for the limiter's lock gets it when it is free again and
\* again
Fairness ==
    /\ WF_vars(Tick)
    /\ \A c \in Callers : WF_vars(Wake(c))
    /\ \A c \in Callers : SF_vars(WaitEnter(c))
FairLimSpec == InitLim /\ [][Next]_vars /\ Fairness

\* failing attempts with the scheduling the retry loop relies on: on top of
\* the limiter's, a thread waiting for _key_lock gets it when it is free
\* again and again, a thread that can run runs, and generate_content
\* returns or raises
Progress ==
    /\ Fairness
    /\ \A c \in Callers : SF_vars(GetModelRead(c))
    /\ \A c \in Callers : WF_vars(GetModelIncr(c))
    /\ \A c \in Callers : WF_vars(GetModelConfigure(c))
    /\ \A c \in Callers : WF_vars(\E out \in Outcomes : ProviderCall(c, out))
FairRetrySpec == InitRetry /\ [][Next]_vars /\ Progress

\* the reply-processing functions on their own: the dispatch state stays
\* as it is after import, each run processes one reply
coreVars == <<API_KEYS, current_key_index, key_lock, configured, rl_lock,
              timestamps, pc, op, attempt, wake, key, idx, result, last,
              sleeps, calls, admits, rotations, issued, obtained, recorded,
              starts, observed, requests, failures, slack>>

\* line 197: results = parse_batch_response(raw_text, request.files)
ParseReply ==
    /\ given.fn = "parse"
    /\ returned = NotReturned
    /\ returned' = [kind |-> "entries",
                    value |-> parse_batch_response(given.raw_text, given.files)]
    /\ UNCHANGED <<given, coreVars>>

\* lines 138-150: generated_text = response.text, cleaned and returned
CleanReply ==
    /\ given.fn = "cleanup"
    /\ returned = NotReturned
    /\ returned' = [kind |-> "documentation",
                    value |-> cleanup(given.generated_text)]
    /\ UNCHANGED <<given, coreVars>>

\* lines 418-428: the attempt returns {"selected_files": file_list}, or
\* ends in the except handler
ReadSelection ==
    /\ given.fn = "select"
    /\ returned = NotReturned
    /\ returned' = IF read_file_list(given.response_text).raised
                   THEN [kind |-> "raised"]
                   ELSE [kind |-> "selected_files",
                         value |-> read_file_list(given.response_text).file_list]
    /\ UNCHANGED <<given, coreVars>>

InitText == Start([requests |-> 0, failures |-> 0, slack |-> <<>>,
                   observed |-> FALSE,
                   inputs |-> ParseInputs(MaxPieces)
                              \cup CleanupInputs(MaxFencePieces)
                              \cup SelectInputs(MaxSelectPieces)])

NextText ==
    \/ ParseReply
    \/ CleanReply
    \/ ReadSelection

TextSpec == InitText /\ [][NextText]_vars

\* ---------------------------------------------------------------- claims
\* the documented bodies: what each operation returns on success and on
\* failure
DocumentedSuccess(o) ==
    CASE o = "docs" -> "documentation"
      [] o = "batch" -> "results"
      [] OTHER -> "selected_files"

IsDocumentedFailure(o, body) ==
    IF o = "select"
    THEN body.shape = "selected_files" /\ body.empty
    ELSE body.shape = "error"

\* the attempt that ended last failed, with or without a throttling text
ThrottledLast(c) == last[c].kind \notin {"none", "ok"} /\ last[c].throttling
OtherFailureLast(c) == last[c].kind \notin {"none", "ok"} /\ ~last[c].throttling

\* C1: from a fresh process, the i-th rotation issues the credential at
\* pool position (i-1) mod N: N consecutive rotations issue every credential
\* once, in pool order from index 0, and rotation N+1 issues the first
\* credential again.
C1_RoundRobin ==
    \A i \in 1..Len(issued) :
        issued[i] = API_KEYS[((i - 1) % Len(API_KEYS)) + 1]

\* a pool of at least two credentials has been cycled through and wrapped
C1_Witness ==
    /\ Len(API_KEYS) >= 2
    /\ Len(issued) = Len(API_KEYS) + 1
    /\ issued[Len(issued)] = API_KEYS[1]

\* C2: under any interleaving the read of the rotation index and its
\* increment are indivisible: nobody changes the index between a caller's
\* read and its increment, no increment is lost, and no two callers read
\* the same index value.
C2_Indivisible ==
    /\ \A c \in Callers : pc[c] = "gm_incr" => idx[c] = current_key_index
    /\ current_key_index =
           Len(obtained) - Cardinality({c \in Callers : pc[c] = "gm_incr"})
    /\ \A i, j \in 1..Len(obtained) : i # j => obtained[i] # obtained[j]

\* one caller is between its read and its increment while another caller
\* waits at get_model, after earlier rotations
C2_Witness ==
    /\ Len(obtained) >= 2
    /\ \E c, d \in Callers :
           c # d /\ pc[c] = "gm_incr" /\ pc[d] = "get_model"

\* the same pair of bounds over a sequence of instants that lie in the
\* trailing 60 seconds: neighbours at least the minimum interval apart and
\* at most rpm_limit of them
Spaced(instants) ==
    /\ \A i \in 1..(Len(instants) - 1) :
           instants[i + 1] - instants[i] >= min_interval_seconds
    /\ Len(instants) <= rpm_limit

\* C3: any two timestamps recorded by the limiter are at least
\* min_interval_seconds apart, and the trailing 60-second window never holds
\* more than rpm_limit recorded timestamps.
C3_LimiterGuarantee == Spaced(recorded)

\* a ninth admission has been recorded after the limiter slept on the RPM
\* limit, with the window full
C3_Witness ==
    /\ Len(recorded) = rpm_limit
    /\ Len(obtained) >= rpm_limit
    /\ \E c \in Callers : pc[c] = "get_model"

\* C4: the instants at which provider calls start obey the limiter's
\* guarantee: consecutive starts at least min_interval_seconds apart and at
\* most rpm_limit starts in the trailing 60 seconds.
C4_StartsSpaced == Spaced(starts)

\* caller c is inside wait_if_needed: waiting for the lock or asleep in it
InLimiter(c) == pc[c] \in {"wait", "rl_interval_sleep", "rl_rpm_sleep"}

\* C5: every caller that has invoked wait_if_needed eventually returns from
\* it with its timestamp recorded, whatever the other callers do, provided
\* time advances and callers keep being scheduled.
C5_EventuallyAdmitted ==
    \A c \in Callers : InLimiter(c) ~> (pc[c] = "get_model")

\* a caller waits for the lock while another sleeps on the RPM limit
\* holding it
C5_Witness ==
    \E c, d \in Callers :
        /\ c # d
        /\ pc[c] = "wait"
        /\ pc[d] = "rl_rpm_sleep"
        /\ rl_lock = d

\* C6: when attempts 1..k-1 fail with throttling errors and attempt k
\* succeeds (1 <= k <= 5), the operation returns its success result after
\* exactly k-1 backoff sleeps of 8, 16, 32, 64 seconds in that order: a
\* throttling failure before the fifth attempt never ends the invocation,
\* every sleep so far has the duration of its position, and a success on
\* call k comes with k-1 sleeps.
C6_SuccessAfterBackoff ==
    \A c \in Callers :
        /\ \A i \in 1..Len(sleeps[c]) : sleeps[c][i] = 8 * (2 ^ (i - 1))
        /\ (ThrottledLast(c) /\ calls[c] < 5) => pc[c] \notin {"done", "idle"}
        /\ (pc[c] = "done" /\ last[c].kind = "ok") =>
              /\ result[c].shape = DocumentedSuccess(op[c])
              /\ calls[c] \in 1..5
              /\ Len(sleeps[c]) = calls[c] - 1

\* a selection succeeded on its fifth attempt after sleeping 8, 16, 32, 64
C6_Witness ==
    \E c \in Callers :
        /\ pc[c] = "done"
        /\ last[c].kind = "ok"
        /\ op[c] = "select"
        /\ calls[c] = 5
        /\ sleeps[c] = <<8, 16, 32, 64>>

\* C7: after an attempt fails with an error whose text has none of "429",
\* "resource", "quota", "rate" (case-insensitively), the operation is over
\* with its failure result: no backoff sleep, provider call, limiter
\* admission or key rotation follows that attempt.
C7_FailFast ==
    \A c \in Callers :
        OtherFailureLast(c) =>
            /\ pc[c] = "done"
            /\ IsDocumentedFailure(op[c], result[c])
            /\ Len(sleeps[c]) = calls[c] - 1
            /\ admits[c] = calls[c]
            /\ rotations[c] = calls[c]

\* a batch generation ended on a provider error that names no throttling
C7_Witness ==
    \E c \in Callers :
        /\ pc[c] = "done"
        /\ op[c] = "batch"
        /\ last[c].kind = "provider_error"
        /\ ~last[c].throttling
        /\ calls[c] = 1
        /\ sleeps[c] = <<>>

\* C8: one invocation issues at most 5 provider calls and sleeps at most 4
\* times; when the fifth attempt fails with a throttling error the
\* operation is over with its failure result, without a further sleep.
C8_AttemptCeiling ==
    \A c \in Callers :
        /\ calls[c] <= 5
        /\ Len(sleeps[c]) <= 4
        /\ (ThrottledLast(c) /\ calls[c] = 5) =>
              /\ pc[c] = "done"
              /\ IsDocumentedFailure(op[c], result[c])
              /\ Len(sleeps[c]) = 4

\* five attempts of a single generation were all throttled
C8_Witness ==
    \E c \in Callers :
        /\ pc[c] = "done"
        /\ op[c] = "docs"
        /\ ThrottledLast(c)
        /\ calls[c] = 5
        /\ result[c].shape = "error"

\* C9: whatever the request and the provider's behaviour, no exception
\* leaves an operation and every operation ends with a body of its
\* documented shape.
C9_AlwaysDocumentedBody ==
    \A c \in Callers :
        /\ pc[c] # "raised"
        /\ pc[c] = "done" =>
              \/ result[c].shape = DocumentedSuccess(op[c])
              \/ IsDocumentedFailure(op[c], result[c])

\* C10: with an empty credential pool every operation ends at once with its
\* documented empty/error body; there is no provider call, no client, and
\* the rotation index and the limiter's timestamps stay as they were.
C10_EmptyPool ==
    API_KEYS = <<>> =>
        /\ current_key_index = 0
        /\ timestamps = <<>>
        /\ recorded = <<>>
        /\ starts = <<>>
        /\ issued = <<>>
        /\ \A c \in Callers :
               /\ pc[c] \in {"idle", "done"}
               /\ calls[c] = 0
               /\ key[c] = 0
               /\ pc[c] = "done" => IsDocumentedFailure(op[c], result[c])

\* with no credentials, a selection and a generation have both been answered
C10_Witness ==
    /\ API_KEYS = <<>>
    /\ \E c, d \in Callers :
           /\ pc[c] = "done" /\ op[c] = "select"
           /\ pc[d] = "done" /\ op[d] \in {"docs", "batch"}

\* the segments of a reply that are not blank, in reply order
Segments(raw) ==
    SelectSeq(split(raw, FileMarker), LAMBDA g : strip(g) # <<>>)

\* the entry a segment stands for: the trimmed text before its first "==="
\* as path, the rest without ===END_FILE===, trimmed, as documentation
EntryOf(seg) ==
    LET t == strip(seg)
        k == find(Delimiter, t)
    IN  [path |-> strip(SubSeq(t, 1, k - 1)),
         documentation |-> strip(remove(SubSeq(t, k + 3, Len(t)), EndMarker))]

Parsed == given.fn = "parse" /\ returned # NotReturned

\* the single entry of the fallback: first requested path, whole reply
WholeReply ==
    <<[path |-> given.files[1].path, documentation |-> given.raw_text]>>

\* C11 as stated: when the reply contains ===FILE:, there is exactly one
\* entry for each non-empty segment of the split on ===FILE:, in reply
\* order, pairing the trimmed header path with the segment's body.
C11_OnePerSegment ==
    (Parsed /\ Contains(FileMarker, given.raw_text)) =>
        LET segs == Segments(given.raw_text) IN
            /\ Len(returned.value) = Len(segs)
            /\ \A i \in 1..Len(segs) : returned.value[i] = EntryOf(segs[i])

\* C11 as the code has it: when the reply contains ===FILE:, there is
\* exactly one entry for each non-empty segment that contains "===", in
\* reply order, pairing the trimmed header path with the segment's body;
\* segments without "===" give no entry, and when no segment gives one the
\* result is the single entry of the whole reply under the first path.
C11_OnePerDelimitedSegment ==
    (Parsed /\ Contains(FileMarker, given.raw_text)) =>
        LET segs == SelectSeq(Segments(given.raw_text),
                              LAMBDA g : Contains(Delimiter, g)) IN
            IF segs = <<>> THEN returned.value = WholeReply
            ELSE /\ Len(returned.value) = Len(segs)
                 /\ \A i \in 1..Len(segs) :
                        returned.value[i] = EntryOf(segs[i])

\* the reply with the blocks of a and b was parsed into those two entries,
\* in that order
C11_Witness ==
    /\ Parsed
    /\ given.raw_text = BlockA \o <<"\n">> \o BlockB
    /\ returned.value = <<[path |-> <<"a">>, documentation |-> <<"x">>],
                          [path |-> <<"b">>, documentation |-> <<"y">>]>>

Cleaned == given.fn = "cleanup" /\ returned # NotReturned

\* positions of the line ends of a text
LineEnds(t) == {i \in 1..Len(t) : t[i] = "\n"}

\* what is left of a reply that begins with a fence: everything after the
\* first line, up to the final line when that is a bare fence
Unwrapped(t) ==
    IF LineEnds(t) = {} THEN <<>>
    ELSE LET f == CHOOSE i \in LineEnds(t) : \A j \in LineEnds(t) : i <= j
             l == CHOOSE i \in LineEnds(t) : \A j \in LineEnds(t) : i >= j
         IN  IF strip(SubSeq(t, l + 1, Len(t))) = Fence
             THEN SubSeq(t, f + 1, l - 1)
             ELSE SubSeq(t, f + 1, Len(t))

\* C13: cleanup removes only the outermost fence: of a reply that begins
\* with a fence the first line goes, the final line goes exactly when it is a
\* bare fence, everything between stays verbatim and in order, and the
\* result is trimmed; a reply that does not begin with a fence comes back
\* trimmed and otherwise unchanged.
C13_OutermostFenceOnly ==
    Cleaned =>
        LET t == given.generated_text IN
            returned.value =
                IF Len(t) >= 3 /\ \A i \in 1..3 : t[i] = Backtick
                THEN strip(Unwrapped(t))
                ELSE strip(t)

\* a fenced reply whose body holds an HTML tag and a backtick came
\* back as that body
C13_Witness ==
    /\ Cleaned
    /\ given.generated_text =
           FenceLine \o <<"<img>", Backtick, "\n">> \o Fence
    /\ returned.value = <<"<img>", Backtick>>

SelectionRead == given.fn = "select" /\ returned # NotReturned

\* the reply text as handed to the JSON parser, and whether it parses to a
\* value of the given type
Handed(t) ==
    IF startswith(strip(t), JsonFence)
    THEN remove(remove(strip(t), JsonFence), Fence)
    ELSE strip(t)
ParsesTo(t, type) ==
    ~json_loads(Handed(t)).raised /\ json_loads(Handed(t)).value.type = type
ParsedValue(t) == json_loads(Handed(t)).value

\* C14 as stated: a reply that parses to a mapping yields the first value
\* of the mapping as selected_files, a reply that parses to a sequence
\* yields that sequence unchanged.
C14_UnwrapsMapping ==
    SelectionRead =>
        LET t == given.response_text IN
            /\ (ParsesTo(t, "dict") /\ ParsedValue(t).values # <<>>) =>
                  /\ returned.kind = "selected_files"
                  /\ returned.value = ParsedValue(t).values[1]
            /\ ParsesTo(t, "list") =>
                  /\ returned.kind = "selected_files"
                  /\ returned.value = ParsedValue(t)

\* C14 as the code has it: a reply that parses to a mapping whose first
\* value is a sequence or a mapping yields that first value; a mapping that
\* is empty or whose first value has no length ends the attempt in the
\* except handler; a reply that parses to a sequence yields it unchanged.
C14_UnwrapsSizedFirstValue ==
    SelectionRead =>
        LET t == given.response_text IN
            /\ ParsesTo(t, "dict") =>
                  IF ParsedValue(t).values # <<>>
                     /\ ParsedValue(t).values[1].type \in {"list", "dict"}
                  THEN /\ returned.kind = "selected_files"
                       /\ returned.value = ParsedValue(t).values[1]
                  ELSE returned.kind = "raised"
            /\ ParsesTo(t, "list") =>
                  /\ returned.kind = "selected_files"
                  /\ returned.value = ParsedValue(t)

\* the fenced reply {"files": ["a.py","b.py"]} came back as that sequence
C14_Witness ==
    /\ SelectionRead
    /\ given.response_text = JsonOpen \o <<"{files:[a,b]}", "\n">> \o Fence
    /\ returned.kind = "selected_files"
    /\ returned.value = List(<<"a.py", "b.py">>)

\* C15: select_important_files never returns an error shape: whenever it
\* is over its body is selected_files, and after a provider failure, a
\* throttling failure on the last attempt or a reply that could not be
\* processed, selected_files is empty.
C15_SelectionNeverErrors ==
    \A c \in Callers :
        (op[c] = "select" /\ pc[c] = "done") =>
            /\ result[c].shape = "selected_files"
            /\ last[c].kind # "ok" => result[c].empty

\* a selection gave up after its fifth attempt was throttled
C15_Witness ==
    \E c \in Callers :
        /\ op[c] = "select"
        /\ pc[c] = "done"
        /\ ThrottledLast(c)
        /\ calls[c] = 5
        /\ result[c] = [shape |-> "selected_files", empty |-> TRUE]

\* C16: a malformed reply is never retried: when the provider call went
\* through and processing its reply raised, the operation is over with its
\* failure body after that attempt, without a backoff sleep.
C16_MalformedNotRetried ==
    \A c \in Callers :
        last[c].kind = "bad_reply" =>
            /\ pc[c] = "done"
            /\ IsDocumentedFailure(op[c], result[c])
            /\ Len(sleeps[c]) = calls[c] - 1

\* where caller c stands in its attempt, by the steps already taken
BeforeAdmission(c) == pc[c] \in {"wait", "rl_interval_sleep", "rl_rpm_sleep"}
BeforeRotation(c) == pc[c] \in {"get_model", "gm_incr"}
BeforeCall(c) == pc[c] \in {"gm_configure", "call"}

\* C17: every attempt, first or retry, takes in this order exactly one
\* limiter admission, then exactly one key rotation, then the provider
\* call, so that calls <= rotations <= admissions throughout an
\* invocation; the step that ends an attempt, failed or not, leaves the
\* limiter's timestamps and the rotation index as they are.
C17_AttemptOrder ==
    /\ [](\A c \in Callers :
            /\ calls[c] <= rotations[c] /\ rotations[c] <= admits[c]
            /\ (BeforeAdmission(c) \/ BeforeRotation(c) \/ BeforeCall(c))
                  => calls[c] = attempt[c]
            /\ BeforeRotation(c) =>
                  admits[c] = calls[c] + 1 /\ rotations[c] = calls[c]
            /\ BeforeCall(c) =>
                  admits[c] = calls[c] + 1 /\ rotations[c] = calls[c] + 1
            /\ (~BeforeRotation(c) /\ ~BeforeCall(c)) =>
                  admits[c] = calls[c] /\ rotations[c] = calls[c])
    /\ [][\A c \in Callers :
            (pc[c] = "call" /\ pc'[c] # "call") =>
                /\ timestamps' = timestamps
                /\ recorded' = recorded
                /\ current_key_index' = current_key_index
                /\ admits'[c] = admits[c]
                /\ rotations'[c] = rotations[c]]_vars

\* a retry stands before its provider call with a second admission and a
\* second rotation behind it
C17_Witness ==
    \E c \in Callers :
        /\ pc[c] = "call"
        /\ attempt[c] = 1
        /\ calls[c] = 1
        /\ admits[c] = 2
        /\ rotations[c] = 2

\* C18: whenever the limiter's lock is free, the retained timestamps are in
\* non-decreasing order and each lies less than 60 seconds before the most
\* recently recorded one.
C18_RetainedWithinWindow ==
    rl_lock = 0 =>
        /\ \A i \in 1..(Len(timestamps) - 1) : timestamps[i] <= timestamps[i + 1]
        /\ \A i \in 1..Len(timestamps) :
               timestamps[Len(timestamps)] - timestamps[i] < WindowSeconds

\* caller c is suspended inside wait_if_needed
Suspended(c) == pc[c] \in {"rl_interval_sleep", "rl_rpm_sleep"}

\* C19: at most one caller at a time is inside the limiter's exclusive
\* section, which lasts from the first prune through the append and
\* through both suspensions: a suspended caller holds the lock, the lock
\* is held only by a suspended caller, and while a caller is suspended
\* nobody else prunes the window, appends to it or takes the lock.
C19_ExclusiveLimiter ==
    /\ [](/\ \A c \in Callers : Suspended(c) => rl_lock = c
          /\ rl_lock # 0 => Suspended(rl_lock))
    /\ [][\A c \in Callers :
            (Suspended(c) /\ pc'[c] = pc[c]) =>
                /\ rl_lock' = c
                /\ Len(timestamps') = Len(timestamps)
                /\ Len(recorded') <= Len(recorded)]_vars

\* a caller waits for the lock while another is in its min-interval sleep
C19_Witness ==
    \E c, d \in Callers :
        /\ c # d
        /\ pc[c] = "wait"
        /\ pc[d] = "rl_interval_sleep"
        /\ rl_lock = d
        /\ wake[d] > 0

\* the index changes only in the rotation step of the caller that holds
\* the key lock
OnlyRotationMovesIndex ==
    current_key_index' # current_key_index =>
        \E c \in Callers :
            /\ pc[c] = "gm_incr"
            /\ key_lock = c
            /\ pc'[c] = "gm_configure"

\* C20 as stated: for a pool of N >= 1 credentials the stored rotation
\* index is always in 0..N-1, and it changes only in the rotation step
\* inside the key lock.
C20_StoredIndexWraps ==
    /\ [](Len(API_KEYS) >= 1 => current_key_index \in 0..(Len(API_KEYS) - 1))
    /\ [][OnlyRotationMovesIndex]_vars

\* C20 as the code has it: the stored index counts the rotations and is
\* never wrapped; the position a rotation uses is the stored index modulo
\* N, in 0..N-1; the index changes only in the rotation step inside the
\* key lock, by one.
C20_IndexCountsRotations ==
    /\ [](/\ current_key_index \in Nat
          /\ current_key_index
                = Len(obtained) - Cardinality({c \in Callers : pc[c] = "gm_incr"})
          /\ \A i \in 1..Len(obtained) :
                /\ obtained[i] % Len(API_KEYS) \in 0..(Len(API_KEYS) - 1)
                /\ issued[i] = API_KEYS[(obtained[i] % Len(API_KEYS)) + 1])
    /\ [][/\ OnlyRotationMovesIndex
          /\ current_key_index' \in {current_key_index, current_key_index + 1}]_vars

\* the stored index has passed the size of the pool, and the rotation
\* after that used position 0 again
C20_Witness ==
    /\ Len(API_KEYS) = 2
    /\ current_key_index = 3
    /\ obtained[3] = 2
    /\ issued[3] = API_KEYS[1]

\* C21: whatever the provider replies, the selected_files an attempt
\* returns is a sequence of path strings with at most MaxSelected entries.
C21_SelectionBounded ==
    (SelectionRead /\ returned.kind = "selected_files") =>
        /\ returned.value.type = "list"
        /\ Len(returned.value.items) <= MaxSelected
        /\ \A i \in 1..Len(returned.value.items) :
               returned.value.items[i] \in {NinePaths[j] : j \in 1..9}

\* the entries that come from delimited segments: all of them, unless the
\* result is the fallback entry
FromSegments ==
    IF SelectSeq(Segments(given.raw_text), LAMBDA g : Contains(Delimiter, g)) = <<>>
    THEN <<>>
    ELSE returned.value

\* C22: every entry produced from a delimited segment has as path the
\* trimmed text before the first === after the ===FILE: marker, and a
\* documentation that contains no ===END_FILE=== and has no leading or
\* trailing whitespace.
C22_EntriesClean ==
    (Parsed /\ Contains(FileMarker, given.raw_text)) =>
        LET segs == SelectSeq(Segments(given.raw_text),
                              LAMBDA g : Contains(Delimiter, g)) IN
            \A i \in 1..Len(FromSegments) :
                /\ FromSegments[i].path = EntryOf(segs[i]).path
                /\ ~Contains(EndMarker, FromSegments[i].documentation)
                /\ strip(FromSegments[i].documentation)
                       = FromSegments[i].documentation

\* caller c is inside the retry loop of its operation
InLoop(c) ==
    pc[c] \in {"wait", "rl_interval_sleep", "rl_rpm_sleep", "get_model",
               "gm_incr", "gm_configure", "call", "backoff"}

\* the three ways an invocation that entered its loop can be over
EndedInSuccess(c) ==
    last[c].kind = "ok" /\ result[c] = SuccessBody(op[c])
EndedNonRetriable(c) ==
    OtherFailureLast(c) /\ result[c] = FailureBody(op[c])
EndedExhausted(c) ==
    ThrottledLast(c) /\ calls[c] = max_retries /\ result[c] = FailureBody(op[c])

\* C23: once the retry loop of an invocation has begun it runs to
\* completion: the invocation eventually returns; when it has returned
\* after at least one attempt its one result is a success, a non-retriable
\* failure or an attempts-exhausted failure; a caller leaves the loop only
\* by returning, and the result, once returned, is not replaced.
C23_RunsToCompletion ==
    /\ \A c \in Callers : InLoop(c) ~> (pc[c] = "done")
    /\ [](\A c \in Callers :
            /\ InLoop(c) => result[c] = NoResult
            /\ (pc[c] = "done" /\ last[c].kind # "none") =>
                  \/ EndedInSuccess(c)
                  \/ EndedNonRetriable(c)
                  \/ EndedExhausted(c))
    /\ [][\A c \in Callers :
            /\ (InLoop(c) /\ ~InLoop(c)') => pc'[c] = "done"
            /\ (pc[c] = "done" /\ pc'[c] = "done") => result'[c] = result[c]]_vars

\* a batch generation returned its results on the third attempt, after two
\* throttled attempts and two backoff sleeps
C23_Witness ==
    \E c \in Callers :
        /\ pc[c] = "done"
        /\ op[c] = "batch"
        /\ EndedInSuccess(c)
        /\ calls[c] = 3
        /\ sleeps[c] = <<8, 16>>

\* C24: under any interleaving, the provider call an attempt makes is sent
\* with the credential the same attempt obtained from the rotation.
C24_CallUsesOwnCredential ==
    [][\A c \in Callers :
          calls'[c] = calls[c] + 1 => CredentialInEffect = key[c]]_vars

\* delimiter parsing gives no entry for the reply: the marker is absent, or
\* no piece between markers holds a "===" that closes a header
NothingDelimited(raw) ==
    \/ ~Contains(FileMarker, raw)
    \/ \A i \in 1..Len(split(raw, FileMarker)) :
           ~Contains(Delimiter, strip(split(raw, FileMarker)[i]))

RetryReads(c) ==
    /\ pc[c] = "get_model"
    /\ pc'[c] = "gm_incr"
    /\ attempt[c] >= 1
    /\ ThrottledLast(c)
    /\ Len(API_KEYS) >= 2

\* C26 as stated: with a pool of N >= 2 credentials, the retry that follows
\* a throttled attempt is issued with a credential different from the one
\* of the failed attempt, however many callers share the rotation index.
C26_RetryChangesCredential ==
    [][\A c \in Callers : RetryReads(c) => key'[c] # KeyAt(idx[c])]_vars

\* C26 as the code has it: the retry reads a later index than the failed
\* attempt did; its credential differs from the failed attempt's exactly
\* when the number of rotations from the one to the other is not a multiple
\* of N, so it differs when no other caller rotated in between, and it is
\* the same credential when other callers' rotations fill up a multiple.
C26_RetryAdvancesByRotations ==
    [][\A c \in Callers :
          RetryReads(c) =>
              /\ idx'[c] > idx[c]
              /\ key'[c] = KeyAt(idx'[c])
              /\ (key'[c] # KeyAt(idx[c]))
                    <=> ((idx'[c] - idx[c]) % Len(API_KEYS) # 0)
              /\ idx'[c] = idx[c] + 1 => key'[c] # KeyAt(idx[c])]_vars

\* a lone caller, throttled on the first credential of two, holds the
\* second one for its retry
C26_Witness ==
    \E c \in Callers :
        /\ pc[c] = "gm_incr"
        /\ attempt[c] = 1
        /\ ThrottledLast(c)
        /\ Len(API_KEYS) = 2
        /\ obtained = <<0, 1>>
        /\ rotations[c] = 1
        /\ issued = <<API_KEYS[1], API_KEYS[2]>>
        /\ key[c] = API_KEYS[2]

\* the body {results: []}
NoResults == [shape |-> "results", empty |-> TRUE]

\* C27: generate_docs_batch called with an empty files sequence and a
\* non-empty pool returns {results: []} at once: the timestamps of the
\* limiter and the rotation index stay as they are, and the invocation has
\* no limiter admission, no key rotation, no provider call and no sleep.
C27_EmptyBatchIsFree ==
    /\ [][\A c \in Callers :
            (API_KEYS # <<>> /\ generate_docs_batch(c, <<>>)) =>
                /\ pc'[c] = "done"
                /\ result'[c] = NoResults
                /\ timestamps' = timestamps
                /\ recorded' = recorded
                /\ current_key_index' = current_key_index
                /\ issued' = issued
                /\ starts' = starts
                /\ configured' = configured]_vars
    /\ [](\A c \in Callers :
            (pc[c] = "done" /\ result[c] = NoResults) =>
                /\ op[c] = "batch"
                /\ calls[c] = 0
                /\ admits[c] = 0
                /\ rotations[c] = 0
                /\ sleeps[c] = <<>>
                /\ last[c] = NoAttempt)

\* an empty batch request was answered while the limiter held a timestamp
\* and the index had advanced for another caller
C27_Witness ==
    /\ API_KEYS # <<>>
    /\ timestamps # <<>>
    /\ current_key_index = 1
    /\ \E c \in Callers :
           /\ pc[c] = "done"
           /\ op[c] = "batch"
           /\ result[c] = NoResults
           /\ admits[c] = 0

====
